---------------------------- MODULE Spec2Model ----------------------------
(***************************************************************************)
(* Model of the code-aggregation tools of src/tools:                       *)
(*   code_analysis/extract_auth.py    manifest-mode  (SpecAuth)            *)
(*   extract_code.py                  directory-mode (SpecCode)            *)
(*   code_analysis/extract_server.py  glob variant   (SpecServer)          *)
(*   extract_db_code.py               database layer (SpecDb)              *)
(* Strings are sequences of one-character strings, so that sorting,        *)
(* lower-casing, extension splitting and glob matching are computed the    *)
(* way Python computes them.                                               *)
(***************************************************************************)
EXTENDS Integers, Sequences, FiniteSets, TLC

VARIABLES
    tool,             \* which script this run executes
    pc,               \* position of the script
    \* ---- extract_auth.extract_files_to_txt
    file_paths,       \* the expected list (extract_auth.py:33)
    disk,             \* path -> "readable" | "unreadable" | "absent"
    pattern_idx,      \* next pattern of additional_patterns to glob
    additional_files, \* extract_auth.py:90
    all_files,        \* extract_auth.py:100-102
    file_idx,         \* position of the loop of extract_auth.py:118
    found_files,      \* extract_auth.py:114
    not_found_files,  \* extract_auth.py:115
    outf,             \* what has been written to the output file
    \* ---- the directory tree the directory-mode tools read
    fs,               \* [exists, present, unreadable, order]
    \* ---- extract_code.extract_code_for_directory
    tree,             \* extract_code.py:65
    walk_stack,       \* directories os.walk has still to visit
    walk_listed,      \* directories os.walk has listed so far
    files_pending,    \* rest of files of the loop of extract_code.py:71
    code_content,     \* extract_code.py:55
    total_files,      \* extract_code.py:56
    total_lines,      \* extract_code.py:57
    code_info,        \* what extract_code_for_directory returned
    \* ---- extract_code.main
    dir_idx,          \* position of the loop of extract_code.py:145
    written,          \* directories whose <directory>_code.txt was written
    main_total_files, \* extract_code.py:138
    main_total_lines, \* extract_code.py:139
    \* ---- extract_server.extract_code
    file_extensions,  \* the parameter of extract_server.py:63
    ext_idx,          \* position of the loop of extract_server.py:93
    glob_files,       \* all_files of extract_server.py:92
    total_loc,        \* extract_server.py:100
    dir_tree,         \* extract_server.py:103
    write_idx,        \* position of the loop of extract_server.py:119
    output_file,      \* what has been written to the report
    \* ---- extract_db_code.extract_files and main
    db_disk,          \* DATABASE_DIR: [exists, files: path -> state and content]
    db_extensions,    \* file_extensions of extract_db_code.py:92
    db_ext_idx,       \* position of the loop of extract_db_code.py:57
    files_data,       \* extract_db_code.py:50 and 97
    db_report         \* what has been written to OUTPUT_FILE

authVars == <<file_paths, disk, pattern_idx, additional_files, all_files,
              file_idx, found_files, not_found_files, outf>>

codeVars == <<tree, walk_stack, walk_listed, files_pending, code_content,
              total_files, total_lines, code_info>>

mainVars == <<dir_idx, written, main_total_files, main_total_lines>>

serverVars == <<file_extensions, ext_idx, glob_files, total_loc, dir_tree,
                write_idx, output_file>>

dbVars == <<db_disk, db_extensions, db_ext_idx, files_data, db_report>>

vars == <<tool, pc, authVars, fs, codeVars, mainVars, serverVars, dbVars>>

----------------------------------------------------------------------------
(* Strings *)

\* The characters the model's names use, in code-point order.
Alphabet == <<".", "/", "B", "Z", "_", "a", "b", "c", "d", "e", "g", "i",
              "j", "l", "m", "n", "o", "p", "r", "s", "t", "u", "x", "z">>

Ord(c) == CHOOSE i \in DOMAIN Alphabet : Alphabet[i] = c

\* Python's str comparison: lexicographic by code point.
RECURSIVE StrLess(_, _)
StrLess(s, t) ==
    IF t = <<>> THEN FALSE
    ELSE IF s = <<>> THEN TRUE
    ELSE IF Head(s) # Head(t) THEN Ord(Head(s)) < Ord(Head(t))
    ELSE StrLess(Tail(s), Tail(t))

StrLeq(s, t) == s = t \/ StrLess(s, t)

StartsWith(s, p) == Len(s) >= Len(p) /\ SubSeq(s, 1, Len(p)) = p

EndsWith(s, p) ==
    Len(s) >= Len(p) /\ SubSeq(s, Len(s) - Len(p) + 1, Len(s)) = p

RangeOf(s) == {s[i] : i \in DOMAIN s}

Contains(s, sub) ==
    \E i \in 0..(Len(s) - Len(sub)) : SubSeq(s, i + 1, i + Len(sub)) = sub

\* list.sort() on a list of distinct strings, given as the set list(set(..)) holds.
RECURSIVE SortedStrings(_)
SortedStrings(S) ==
    IF S = {} THEN <<>>
    ELSE LET m == CHOOSE x \in S : \A y \in S : StrLeq(x, y)
         IN  <<m>> \o SortedStrings(S \ {m})

IsAscending(seq) ==
    \A i \in 1..(Len(seq) - 1) : StrLess(seq[i], seq[i + 1])

\* All orders in which the elements of a finite set can be enumerated.
Orderings(S) ==
    {q \in [1..Cardinality(S) -> S] : \A i, j \in DOMAIN q : i # j => q[i] # q[j]}


----------------------------------------------------------------------------
(* The directory tree below the target directory *)

\* The target directory does not exist (and fs before any tree is read).
NoFs == [exists |-> FALSE, present |-> {}, unreadable |-> {}, order |-> <<>>]

\* Most entries of one tree whose listing or read fails.
MaxUnreadable == 1

\* The entries a tree can hold; node 0 is the target directory itself.
\*   a/  a/b.ts  a/B.ts  a/.git/  a/.git/c.ts
\*   node_modules/  node_modules/lib/  node_modules/lib/m.js
\*   x.ts  Z.png
NodeTable ==
    << [parent |-> 0, kind |-> "dir",
        name |-> <<"a">>,
        content |-> <<>>],
       [parent |-> 0, kind |-> "dir",
        name |-> <<"n", "o", "d", "e", "_", "m", "o", "d", "u", "l", "e", "s">>,
        content |-> <<>>],
       [parent |-> 0, kind |-> "file",
        name |-> <<"x", ".", "t", "s">>,
        content |-> <<"a", "\n", "b", "\n">>],
       [parent |-> 0, kind |-> "file",
        name |-> <<"Z", ".", "p", "n", "g">>,
        content |-> <<"z">>],
       [parent |-> 1, kind |-> "file",
        name |-> <<"b", ".", "t", "s">>,
        content |-> <<"a">>],
       [parent |-> 1, kind |-> "dir",
        name |-> <<".", "g", "i", "t">>,
        content |-> <<>>],
       [parent |-> 6, kind |-> "file",
        name |-> <<"c", ".", "t", "s">>,
        content |-> <<"a", "\n">>],
       [parent |-> 2, kind |-> "dir",
        name |-> <<"l", "i", "b">>,
        content |-> <<>>],
       [parent |-> 8, kind |-> "file",
        name |-> <<"m", ".", "j", "s">>,
        content |-> <<"a", "\n", "\n", "b", "\n">>],
       [parent |-> 1, kind |-> "file",
        name |-> <<"B", ".", "t", "s">>,
        content |-> <<"b", "\n", "b", "\n", "b">>] >>

Nodes == DOMAIN NodeTable

Name(n) == NodeTable[n].name

\* Path.is_dir() / the dirs-files split of os.walk
IsDir(n) == n = 0 \/ NodeTable[n].kind = "dir"

\* The path of a node relative to the target directory.
RECURSIVE RelPathOf(_)
RelPathOf(n) ==
    IF NodeTable[n].parent = 0 THEN Name(n)
    ELSE RelPathOf(NodeTable[n].parent) \o <<"/">> \o Name(n)

\* The directories strictly above a node, the target directory excluded.
RECURSIVE Ancestors(_)
Ancestors(n) ==
    IF NodeTable[n].parent = 0 THEN {}
    ELSE {NodeTable[n].parent} \cup Ancestors(NodeTable[n].parent)

ChildrenIn(S, d) == {n \in S : NodeTable[n].parent = d}

DirsIn(S) == {0} \cup {n \in S : IsDir(n)}

\* One listing order per directory: what iterdir/scandir returns for it.
RECURSIVE OrderChoices(_, _)
OrderChoices(S, dirs) ==
    IF dirs = {} THEN {<<>>}
    ELSE LET d == CHOOSE x \in dirs : TRUE
         IN  {(d :> o) @@ f : o \in Orderings(ChildrenIn(S, d)),
                              f \in OrderChoices(S, dirs \ {d})}

\* The sets of entries a tree can consist of: closed under parent.
ClosedSets ==
    {T \in SUBSET Nodes :
        \A n \in T : NodeTable[n].parent = 0 \/ NodeTable[n].parent \in T}

\* The entries of a tree that cannot be listed or read.
UnreadableChoices(S) ==
    {V \in SUBSET (S \cup {0}) : Cardinality(V) <= MaxUnreadable}

\* f is a tree a run can meet: no target directory at all, or a closed set
\* of entries, the unreadable ones among them, and the listing orders.
IsFsChoice(f) ==
    \/ f = NoFs
    \/ \E S \in ClosedSets :
         \E U \in UnreadableChoices(S) :
            \E o \in OrderChoices(S, DirsIn(S)) :
               f = [exists |-> TRUE, present |-> S, unreadable |-> U, order |-> o]

----------------------------------------------------------------------------
(* extract_code.py: directory-mode *)

\* str.lower() on the characters of the alphabet
LowerChar(c) == IF c = "B" THEN "b" ELSE IF c = "Z" THEN "z" ELSE c

Lower(s) == [i \in DOMAIN s |-> LowerChar(s[i])]

\* os.path.splitext(file)[1]: from the last dot on, unless only dots precede it.
SplitExt(file) ==
    LET dots == {i \in DOMAIN file : file[i] = "."}
    IN  IF dots = {} THEN <<>>
        ELSE LET last == CHOOSE i \in dots : \A j \in dots : j <= i
             IN  IF \E j \in 1..(last - 1) : file[j] # "."
                 THEN SubSeq(file, last, Len(file))
                 ELSE <<>>

\* f.readlines(): the content cut after every newline.
RECURSIVE ReadLinesFrom(_, _)
ReadLinesFrom(content, cur) ==
    IF content = <<>> THEN (IF cur = <<>> THEN <<>> ELSE <<cur>>)
    ELSE IF Head(content) = "\n"
         THEN <<Append(cur, "\n")>> \o ReadLinesFrom(Tail(content), <<>>)
         ELSE ReadLinesFrom(Tail(content), Append(cur, Head(content)))

ReadLines(content) == ReadLinesFrom(content, <<>>)

\* code_extensions of extract_code.py:42, two of them.
code_extensions == { <<".", "t", "s">>, <<".", "j", "s">> }

\* exclude_dirs of extract_code.py:49, two of them.
exclude_dirs == { <<"n", "o", "d", "e", "_", "m", "o", "d", "u", "l", "e", "s">>, <<".", "g", "i", "t">> }

\* directories of extract_code.py:135, one of them.
directories == <<"server">>

\* Mutant: the names are compared as they are, upper case before lower case.
KeyLessCaseSensitive(a, b) ==
    \/ IsDir(a) /\ ~IsDir(b)
    \/ IsDir(a) = IsDir(b) /\ StrLess(Name(a), Name(b))

\* The sort key of extract_code.py:19: (not is_dir, name.lower()).
KeyLess(a, b) ==
    \/ IsDir(a) /\ ~IsDir(b)
    \/ IsDir(a) = IsDir(b) /\ StrLess(Lower(Name(a)), Lower(Name(b)))

\* list.sort(key=..) is stable: an item goes after the items whose key is
\* not greater.
RECURSIVE InsertStable(_, _)
InsertStable(sorted, x) ==
    IF sorted = <<>> THEN <<x>>
    ELSE IF KeyLess(x, Head(sorted)) THEN <<x>> \o sorted
    ELSE <<Head(sorted)>> \o InsertStable(Tail(sorted), x)

RECURSIVE SortItems(_)
SortItems(items) ==
    IF items = <<>> THEN <<>>
    ELSE InsertStable(SortItems(SubSeq(items, 1, Len(items) - 1)),
                      items[Len(items)])

\* The markers of extract_code.py:26-27, in ASCII.
Corner == "+-- "
Branch == "|-- "
Blank  == "    "
Bar    == "|   "

\* extract_code.py:4-38. A line is prefix + marker + name; the field node records
\* which entry the line was written for.
RECURSIVE generate_directory_tree(_, _, _, _)
RECURSIVE TreeLoop(_, _, _, _, _)
generate_directory_tree(f, directory, prefix, exclude) ==
    IF directory \in f.unreadable
    THEN <<>>
    ELSE TreeLoop(f, SortItems(f.order[directory]), 1, prefix, exclude)

\* Mutant: only directories get a line.
RECURSIVE TreeLoopDirsOnly(_, _, _, _, _)
TreeLoopDirsOnly(f, items, index, prefix, exclude) ==
    IF index > Len(items) THEN <<>>
    ELSE LET item == items[index]
             is_last == index = Len(items)
         IN  IF Name(item) \in exclude \/ ~IsDir(item)
             THEN TreeLoopDirsOnly(f, items, index + 1, prefix, exclude)
             ELSE << [prefix |-> prefix,
                      marker |-> IF is_last THEN Corner ELSE Branch,
                      name |-> Name(item), node |-> item] >>
                  \o generate_directory_tree(f, item,
                          Append(prefix, IF is_last THEN Blank ELSE Bar),
                          exclude)
                  \o TreeLoopDirsOnly(f, items, index + 1, prefix, exclude)

\* Mutant: the loop ends after a directory whose listing raised.
RECURSIVE TreeLoopStopsAtUnreadable(_, _, _, _, _)
TreeLoopStopsAtUnreadable(f, items, index, prefix, exclude) ==
    IF index > Len(items) THEN <<>>
    ELSE LET item == items[index]
             is_last == index = Len(items)
         IN  IF Name(item) \in exclude
             THEN TreeLoopStopsAtUnreadable(f, items, index + 1, prefix, exclude)
             ELSE << [prefix |-> prefix,
                      marker |-> IF is_last THEN Corner ELSE Branch,
                      name |-> Name(item), node |-> item] >>
                  \o (IF IsDir(item)
                      THEN generate_directory_tree(f, item,
                              Append(prefix, IF is_last THEN Blank ELSE Bar),
                              exclude)
                      ELSE <<>>)
                  \o (IF IsDir(item) /\ item \in f.unreadable THEN <<>>
                      ELSE TreeLoopStopsAtUnreadable(f, items, index + 1,
                                                     prefix, exclude))

\* The loop of extract_code.py:21-36 from position index on.
TreeLoop(f, items, index, prefix, exclude) ==
    IF index > Len(items) THEN <<>>
    ELSE LET item == items[index]
             is_last == index = Len(items)
         IN  IF Name(item) \in exclude
             THEN TreeLoop(f, items, index + 1, prefix, exclude)
             ELSE << [prefix |-> prefix,
                      marker |-> IF is_last THEN Corner ELSE Branch,
                      name |-> Name(item), node |-> item] >>
                  \o (IF IsDir(item)
                      THEN generate_directory_tree(f, item,
                              Append(prefix, IF is_last THEN Blank ELSE Bar),
                              exclude)
                      ELSE <<>>)
                  \o TreeLoop(f, items, index + 1, prefix, exclude)

\* Mutant: os.walk descends into every directory.
PruneDirsKeepsAll(dirs, exclude) == dirs

\* extract_code.py:69: dirs[:] = [d for d in dirs if d not in exclude_dirs]
PruneDirs(dirs, exclude) ==
    SelectSeq(dirs, LAMBDA d : Name(d) \notin exclude)

\* ''.join(lines)
RECURSIVE JoinLines(_)
JoinLines(lines) ==
    IF lines = <<>> THEN <<>> ELSE Head(lines) \o JoinLines(Tail(lines))

\* separator + header + content of extract_code.py:87-91, as tokens.
RenderSection(sec) ==
    << <<"SEP">>, <<"File", sec.path>>, <<"Lines", sec.lines>>, <<"DASH">>,
       <<"TEXT", sec.content>> >>

\* ''.join(code_content), extract_code.py:100
RECURSIVE JoinSections(_)
JoinSections(cc) ==
    IF cc = <<>> THEN <<>>
    ELSE RenderSection(Head(cc)) \o JoinSections(Tail(cc))

\* Mutant: the file is counted before it is read.
WalkFileCountsFirst(f, file, cc, tf, tl) ==
    LET extension == Lower(SplitExt(Name(file)))
    IN  IF extension \in code_extensions
        THEN IF file \notin f.unreadable
             THEN LET lines == ReadLines(NodeTable[file].content)
                  IN  [code_content |-> Append(cc,
                          [path |-> RelPathOf(file), lines |-> Len(lines),
                           content |-> JoinLines(lines), node |-> file]),
                       total_files |-> tf + 1,
                       total_lines |-> tl + Len(lines)]
             ELSE [code_content |-> cc, total_files |-> tf + 1, total_lines |-> tl]
        ELSE [code_content |-> cc, total_files |-> tf, total_lines |-> tl]

\* The body of the loop of extract_code.py:71-94 for one file.
WalkFile(f, file, cc, tf, tl) ==
    LET extension == Lower(SplitExt(Name(file)))
    IN  IF extension \in code_extensions
        THEN IF file \notin f.unreadable
             THEN \* lines 77-91
                  LET lines == ReadLines(NodeTable[file].content)
                      line_count == Len(lines)
                  IN  [code_content |-> Append(cc,
                          [path |-> RelPathOf(file), lines |-> line_count,
                           content |-> JoinLines(lines), node |-> file]),
                       total_files |-> tf + 1,
                       total_lines |-> tl + line_count]
             ELSE \* lines 93-94: the error is printed, nothing is recorded
                  [code_content |-> cc, total_files |-> tf, total_lines |-> tl]
        ELSE [code_content |-> cc, total_files |-> tf, total_lines |-> tl]

\* Mutant: a report is returned whatever the count.
MakeReportAlways(cc, tf, tl, tr) ==
    << [content |-> JoinSections(cc), total_files |-> tf, total_lines |-> tl,
        tree |-> tr] >>

\* extract_code.py:96-104; None is the empty sequence, a report a sequence
\* of one dict.
MakeReport(cc, tf, tl, tr) ==
    IF tf = 0 THEN <<>>
    ELSE << [content |-> JoinSections(cc), total_files |-> tf,
             total_lines |-> tl, tree |-> tr] >>

\* The variables of extract_db_code.py while another tool runs.
DbIdle ==
    /\ db_disk = <<>> /\ db_extensions = <<>> /\ db_ext_idx = 1
    /\ files_data = <<>> /\ db_report = <<>>

\* The variables of extract_server.py while another tool runs.
ServerIdle ==
    /\ file_extensions = <<>> /\ ext_idx = 1 /\ glob_files = <<>>
    /\ total_loc = 0 /\ dir_tree = <<>> /\ write_idx = 1 /\ output_file = <<>>

\* The variables of extract_auth.py while another tool runs.
AuthIdle ==
    /\ file_paths = <<>> /\ disk = <<>> /\ pattern_idx = 1
    /\ additional_files = <<>> /\ all_files = <<>> /\ file_idx = 1
    /\ found_files = <<>> /\ not_found_files = <<>> /\ outf = <<>>

CodeInit ==
    /\ tool = "code"
    /\ pc = "main"
    /\ DbIdle
    /\ AuthIdle
    /\ ServerIdle
    /\ IsFsChoice(fs)
    /\ tree = <<>> /\ walk_stack = <<>> /\ walk_listed = {}
    /\ files_pending = <<>> /\ code_content = <<>>
    /\ total_files = 0 /\ total_lines = 0 /\ code_info = <<>>
    /\ dir_idx = 1 /\ written = {}
    /\ main_total_files = 0 /\ main_total_lines = 0

\* extract_code.py:145-146 and 54-65: main calls extract_code_for_directory
\* for the next directory, whose tree is fs.
CodeCall ==
    /\ tool = "code" /\ pc = "main"
    /\ dir_idx <= Len(directories)
    /\ code_content' = <<>> /\ total_files' = 0 /\ total_lines' = 0
    /\ walk_listed' = {} /\ files_pending' = <<>>
    /\ code_info' = <<>>
    /\ IF ~fs.exists
       THEN \* lines 61-62: return None
            /\ tree' = <<>> /\ walk_stack' = <<>>
            /\ pc' = "collect"
       ELSE \* line 65
            /\ tree' = generate_directory_tree(fs, 0, <<>>, exclude_dirs)
            /\ walk_stack' = <<0>>
            /\ pc' = "walk"
    /\ UNCHANGED <<dbVars, authVars, serverVars, mainVars, tool, fs>>

\* extract_code.py:67-69: os.walk lists the next directory and the caller
\* prunes its dirs; a directory that cannot be listed yields nothing.
CodeWalkDir ==
    /\ tool = "code" /\ pc = "walk"
    /\ files_pending = <<>> /\ walk_stack # <<>>
    /\ LET top == Head(walk_stack)
       IN  IF top \in fs.unreadable
           THEN /\ walk_stack' = Tail(walk_stack)
                /\ UNCHANGED <<files_pending, walk_listed>>
           ELSE LET dirs  == SelectSeq(fs.order[top], IsDir)
                    files == SelectSeq(fs.order[top], LAMBDA n : ~IsDir(n))
                IN  /\ walk_stack' = PruneDirs(dirs, exclude_dirs) \o Tail(walk_stack)
                    /\ files_pending' = files
                    /\ walk_listed' = walk_listed \cup {top}
    /\ UNCHANGED <<dbVars, authVars, serverVars, mainVars, tool, pc, fs, tree, code_content,
                   total_files, total_lines, code_info>>

\* extract_code.py:71-94, one file per step.
CodeWalkFile ==
    /\ tool = "code" /\ pc = "walk"
    /\ files_pending # <<>>
    /\ LET r == WalkFile(fs, Head(files_pending), code_content, total_files,
                         total_lines)
       IN  /\ code_content' = r.code_content
           /\ total_files' = r.total_files
           /\ total_lines' = r.total_lines
    /\ files_pending' = Tail(files_pending)
    /\ UNCHANGED <<dbVars, authVars, serverVars, mainVars, tool, pc, fs, tree, walk_stack,
                   walk_listed, code_info>>

\* extract_code.py:96-104
CodeReturn ==
    /\ tool = "code" /\ pc = "walk"
    /\ files_pending = <<>> /\ walk_stack = <<>>
    /\ code_info' = MakeReport(code_content, total_files, total_lines, tree)
    /\ pc' = "collect"
    /\ UNCHANGED <<dbVars, authVars, serverVars, mainVars, tool, fs, tree, walk_stack, walk_listed,
                   files_pending, code_content, total_files, total_lines>>

\* extract_code.py:148-154: if code_info: save_code_to_file, add the totals.
Collect(info, dirname, w, mtf, mtl) ==
    IF info # <<>>
    THEN [written |-> w \cup {dirname},
          main_total_files |-> mtf + info[1].total_files,
          main_total_lines |-> mtl + info[1].total_lines]
    ELSE [written |-> w, main_total_files |-> mtf, main_total_lines |-> mtl]

CodeCollect ==
    /\ tool = "code" /\ pc = "collect"
    /\ LET r == Collect(code_info, directories[dir_idx], written,
                        main_total_files, main_total_lines)
       IN  /\ written' = r.written
           /\ main_total_files' = r.main_total_files
           /\ main_total_lines' = r.main_total_lines
    /\ dir_idx' = dir_idx + 1
    /\ pc' = "main"
    /\ UNCHANGED <<dbVars, authVars, serverVars, tool, fs, codeVars>>

\* extract_code.py:161-186: the loop is over, the summary is written.
CodeMainDone ==
    /\ tool = "code" /\ pc = "main"
    /\ dir_idx > Len(directories)
    /\ pc' = "done"
    /\ UNCHANGED <<dbVars, authVars, serverVars, tool, fs, codeVars, mainVars>>

CodeNext ==
    \/ CodeCall \/ CodeWalkDir \/ CodeWalkFile \/ CodeReturn
    \/ CodeCollect \/ CodeMainDone

SpecCode == CodeInit /\ [][CodeNext]_vars

----------------------------------------------------------------------------
(* extract_auth.py: manifest-mode *)

\* Longest expected list the model draws.
MaxExpected == 2

\* root_dir of extract_auth.py:17, as an absolute path.
root_dir == <<"/", "r">>

\* The relative paths that can occur in a run: in a globbed directory (d, e)
\* or outside every pattern (m.ts), with and without the globbed suffix.
AuthPaths ==
    { <<"d", "/", "a", ".", "t", "s">>,
      <<"d", "/", "b", ".", "t", "s">>,
      <<"e", "/", "a", ".", "t", "s">>,
      <<"e", "/", "b", ".", "j", "s">>,
      <<"m", ".", "t", "s">> }

\* additional_patterns of extract_auth.py:81, two directories of it.
additional_patterns ==
    << <<"d", "/", "*", ".", "t", "s">>,
       <<"e", "/", "*", ".", "t", "s">> >>

DiskStates == {"readable", "unreadable", "absent"}

\* os.path.join(root_dir, pattern), extract_auth.py:92 and root_dir / file_path
PathJoin(root, rel) == root \o <<"/">> \o rel

\* os.path.relpath(file_path, root_dir) for a path below root_dir
RelPath(full, root) == SubSeq(full, Len(root) + 2, Len(full))

\* full_path.exists(), extract_auth.py:121
Exists(d, full) ==
    /\ StartsWith(full, root_dir \o <<"/">>)
    /\ RelPath(full, root_dir) \in DOMAIN d
    /\ d[RelPath(full, root_dir)] # "absent"

\* fnmatch of a pattern with one "*": the star matches within one path
\* component and does not match a leading dot.
GlobMatch(pattern, path) ==
    LET star == CHOOSE i \in DOMAIN pattern : pattern[i] = "*"
        pre  == SubSeq(pattern, 1, star - 1)
        post == SubSeq(pattern, star + 1, Len(pattern))
        mid  == SubSeq(path, Len(pre) + 1, Len(path) - Len(post))
    IN  /\ Len(path) >= Len(pre) + Len(post)
        /\ StartsWith(path, pre)
        /\ EndsWith(path, post)
        /\ "/" \notin RangeOf(mid)
        /\ (mid \o post) # <<>> => Head(mid \o post) # "."

\* glob.glob(full_pattern): the existing paths that match, as a set; the
\* order in which glob returns them is chosen by the caller.
GlobSet(d, full_pattern) ==
    {PathJoin(root_dir, p) : p \in {q \in DOMAIN d :
        d[q] # "absent" /\ GlobMatch(full_pattern, PathJoin(root_dir, q))}}

\* The inner loop of extract_auth.py:93-97 over one glob result.
RECURSIVE AppendNew(_, _, _)
AppendNew(acc, matches, expected) ==
    IF matches = <<>> THEN acc
    ELSE LET rel_path == RelPath(Head(matches), root_dir)
         IN  AppendNew(IF rel_path \notin RangeOf(expected)
                       THEN Append(acc, rel_path) ELSE acc,
                       Tail(matches), expected)

\* Mutant: the merged list keeps the concatenation as it is.
MergePathsUnsorted(expected, additional) == expected \o additional

\* extract_auth.py:100-102: concatenate, list(set(..)), sort().
MergePaths(expected, additional) ==
    SortedStrings(RangeOf(expected \o additional))

\* The directory-mode variables while another tool runs.
CodeIdle ==
    /\ fs = NoFs
    /\ tree = <<>> /\ walk_stack = <<>> /\ walk_listed = {}
    /\ files_pending = <<>> /\ code_content = <<>>
    /\ total_files = 0 /\ total_lines = 0 /\ code_info = <<>>
    /\ dir_idx = 1 /\ written = {}
    /\ main_total_files = 0 /\ main_total_lines = 0

AuthInit ==
    /\ tool = "auth"
    /\ DbIdle
    /\ CodeIdle
    /\ ServerIdle
    /\ pc = "glob"
    /\ file_paths \in UNION {[1..n -> AuthPaths] : n \in 0..MaxExpected}
    /\ disk \in [AuthPaths -> DiskStates]
    /\ pattern_idx = 1
    /\ additional_files = <<>>
    /\ all_files = <<>>
    /\ file_idx = 1
    /\ found_files = <<>>
    /\ not_found_files = <<>>
    /\ outf = <<>>

\* extract_auth.py:91-97, one pattern per step.
AuthGlob ==
    /\ tool = "auth" /\ pc = "glob"
    /\ pattern_idx <= Len(additional_patterns)
    /\ \E matches \in Orderings(GlobSet(disk,
              PathJoin(root_dir, additional_patterns[pattern_idx]))) :
          additional_files' = AppendNew(additional_files, matches, file_paths)
    /\ pattern_idx' = pattern_idx + 1
    /\ UNCHANGED <<dbVars, fs, codeVars, mainVars, serverVars, tool, pc, file_paths, disk, all_files, file_idx,
                   found_files, not_found_files, outf>>

\* extract_auth.py:99-115: merge, open the output, write the title block.
AuthMerge ==
    /\ tool = "auth" /\ pc = "glob"
    /\ pattern_idx > Len(additional_patterns)
    /\ all_files' = MergePaths(file_paths, additional_files)
    /\ outf' = << <<"TITLE">> >>
    /\ pc' = "process"
    /\ UNCHANGED <<dbVars, fs, codeVars, mainVars, serverVars, tool, file_paths, disk, pattern_idx, additional_files,
                   file_idx, found_files, not_found_files>>

\* Mutant: a failed read is recorded in neither list.
ProcessFileDropsError(d, file_path, found, not_found, out) ==
    LET full_path == PathJoin(root_dir, file_path)
    IN  IF Exists(d, full_path)
        THEN IF d[file_path] = "readable"
             THEN [found |-> Append(found, file_path), not_found |-> not_found,
                   out |-> out \o << <<"FILE", file_path>>, <<"CONTENT", file_path>> >>]
             ELSE [found |-> found, not_found |-> not_found,
                   out |-> out \o << <<"FILE", file_path>>, <<"ERROR", file_path>> >>]
        ELSE [found |-> found, not_found |-> Append(not_found, file_path),
              out |-> out]

\* The body of the loop of extract_auth.py:118-137 for one path.
ProcessFile(d, file_path, found, not_found, out) ==
    LET full_path == PathJoin(root_dir, file_path)
    IN  IF Exists(d, full_path)
        THEN IF d[file_path] = "readable"
             THEN \* lines 123-132
                  [found |-> Append(found, file_path), not_found |-> not_found,
                   out |-> out \o << <<"FILE", file_path>>, <<"CONTENT", file_path>> >>]
             ELSE \* lines 123-125, 133-135
                  [found |-> found, not_found |-> Append(not_found, file_path),
                   out |-> out \o << <<"FILE", file_path>>, <<"ERROR", file_path>> >>]
        ELSE \* line 137
             [found |-> found, not_found |-> Append(not_found, file_path),
              out |-> out]

AuthProcess ==
    /\ tool = "auth" /\ pc = "process"
    /\ file_idx <= Len(all_files)
    /\ LET r == ProcessFile(disk, all_files[file_idx], found_files,
                            not_found_files, outf)
       IN  /\ found_files' = r.found
           /\ not_found_files' = r.not_found
           /\ outf' = r.out
    /\ file_idx' = file_idx + 1
    /\ UNCHANGED <<dbVars, fs, codeVars, mainVars, serverVars, tool, pc, file_paths, disk, pattern_idx, additional_files,
                   all_files>>

\* The "Missing files:" block of extract_auth.py:147-150.
MissingLines(not_found) ==
    [i \in 1..Len(not_found) |-> <<"MISSING", not_found[i]>>]

\* extract_auth.py:139-150
AuthSummary ==
    /\ tool = "auth" /\ pc = "process"
    /\ file_idx > Len(all_files)
    /\ outf' = outf \o << <<"SUMMARY", Len(all_files), Len(found_files),
                            Len(not_found_files)>> >>
                    \o MissingLines(not_found_files)
    /\ pc' = "done"
    /\ UNCHANGED <<dbVars, fs, codeVars, mainVars, serverVars, tool, file_paths, disk, pattern_idx, additional_files,
                   all_files, file_idx, found_files, not_found_files>>

AuthNext == AuthGlob \/ AuthMerge \/ AuthProcess \/ AuthSummary

SpecAuth == AuthInit /\ [][AuthNext]_vars


(* Claims about extract_auth.py *)

LoopFinished == tool = "auth" /\ pc \in {"process", "done"} /\ file_idx > Len(all_files)

SummaryOf(out) == {out[i] : i \in {j \in DOMAIN out : out[j][1] = "SUMMARY"}}

PathsOfKind(out, kind) ==
    {out[i][2] : i \in {j \in DOMAIN out : out[j][1] = kind}}

\* The paths of the entries of one kind, in the order they were written.
RECURSIVE SeqOfKind(_, _)
SeqOfKind(out, kind) ==
    IF out = <<>> THEN <<>>
    ELSE (IF Head(out)[1] = kind THEN <<Head(out)[2]>> ELSE <<>>)
         \o SeqOfKind(Tail(out), kind)

\* C1: when the loop over all_files has finished, found_files and
\* not_found_files are disjoint, their union is the merged path set, their
\* lengths add up to len(all_files), and the three numbers of the SUMMARY
\* block add up the same way.
C1_PartitionTotality ==
    LoopFinished =>
        /\ RangeOf(found_files) \cap RangeOf(not_found_files) = {}
        /\ RangeOf(found_files) \cup RangeOf(not_found_files) = RangeOf(all_files)
        /\ Len(found_files) + Len(not_found_files) = Len(all_files)
        /\ \A sm \in SummaryOf(outf) :
              sm[2] = Len(all_files) /\ sm[3] + sm[4] = sm[2]
        /\ pc = "done" => SummaryOf(outf) # {}

C1_Witness ==
    /\ tool = "auth" /\ pc = "done"
    /\ \E p \in RangeOf(found_files) : disk[p] = "readable"
    /\ \E p \in RangeOf(not_found_files) : disk[p] = "unreadable"
    /\ \E p \in RangeOf(not_found_files) : disk[p] = "absent"

\* C2 (as claimed): at the end of the run a path of the merged set is in
\* found_files iff it exists under root_dir, and in not_found_files and in
\* the "Missing files" list iff it is absent; a path whose read fails has an
\* error marker and is counted as found.
C2_ClassifiedByExistence ==
    (tool = "auth" /\ pc = "done") =>
        \A p \in RangeOf(all_files) :
            /\ p \in RangeOf(found_files) <=> disk[p] # "absent"
            /\ p \in RangeOf(not_found_files) <=> disk[p] = "absent"
            /\ p \in PathsOfKind(outf, "MISSING") <=> disk[p] = "absent"
            /\ disk[p] = "unreadable" => p \in PathsOfKind(outf, "ERROR")

\* The paths glob discovers: the existing paths some pattern matches.
Discovered ==
    {RelPath(f, root_dir) : f \in UNION {GlobSet(disk, PathJoin(root_dir,
        additional_patterns[k])) : k \in DOMAIN additional_patterns}}

\* C8: all_files holds every expected and every glob-discovered path exactly
\* once, and nothing else, in ascending order; FILE sections and the
\* missing-file list are written in ascending path order, one per path.
C8_MergedSortedOnce ==
    (tool = "auth" /\ pc \in {"process", "done"}) =>
        /\ RangeOf(all_files) = RangeOf(file_paths) \cup Discovered
        /\ \A p \in RangeOf(all_files) :
              Cardinality({i \in DOMAIN all_files : all_files[i] = p}) = 1
        /\ IsAscending(all_files)
        /\ IsAscending(SeqOfKind(outf, "FILE"))
        /\ IsAscending(SeqOfKind(outf, "MISSING"))
        /\ pc = "done" =>
              /\ PathsOfKind(outf, "FILE") = {p \in RangeOf(all_files) : disk[p] # "absent"}
              /\ SeqOfKind(outf, "MISSING") = not_found_files

C8_Witness ==
    /\ tool = "auth" /\ pc = "done"
    /\ Len(file_paths) = 2 /\ StrLess(file_paths[2], file_paths[1])
    /\ Discovered \ RangeOf(file_paths) # {}
    /\ Discovered \cap RangeOf(file_paths) # {}
    /\ Len(SeqOfKind(outf, "FILE")) >= 2
    /\ Len(SeqOfKind(outf, "MISSING")) >= 2


----------------------------------------------------------------------------
(* code_analysis/extract_server.py: the glob variant *)

\* base_dir and target_subfolder of extract_server.py:63, and target_dir
\* of extract_server.py:81.
base_dir == <<"/", "r">>
target_subfolder == <<"s">>
target_dir == PathJoin(base_dir, target_subfolder)

\* The default exclude_patterns of extract_server.py:22.
exclude_patterns == { <<"_", "_", "p", "y", "c", "a", "c", "h", "e", "_", "_">>, <<".", "g", "i", "t">>, <<"n", "o", "d", "e", "_", "m", "o", "d", "u", "l", "e", "s">> }

\* The extension lists a run is given: the default's first two, one
\* extension, a repeated one, one without its dot.
ExtensionLists ==
    { << <<".", "t", "s">>, <<".", "j", "s">> >>,
      << <<".", "j", "s">> >>,
      << <<".", "t", "s">>, <<".", "t", "s">> >>,
      << <<"t", "s">>, <<".", "t", "s">> >> }

\* os.path.join(target_dir, ...) down to a node.
FullPathOf(n) == IF n = 0 THEN target_dir ELSE PathJoin(target_dir, RelPathOf(n))

\* The node a path of the tree names.
NodeOfPath(path) == CHOOSE n \in Nodes \cup {0} : FullPathOf(n) = path

\* any(pattern in path for pattern in exclude_patterns)
MatchesExclude(path, patterns) == \E pat \in patterns : Contains(path, pat)

\* The children of a directory in ascending or descending order of node.
RECURSIVE ListingByRank(_, _)
ListingByRank(C, up) ==
    IF C = {} THEN <<>>
    ELSE LET m == CHOOSE x \in C : \A y \in C : IF up THEN x <= y ELSE x >= y
         IN  <<m>> \o ListingByRank(C \ {m}, up)

\* The trees a run of extract_server.py is checked on: as IsFsChoice, with
\* two listing orders.
IsServerFsChoice(f) ==
    \/ f = NoFs
    \/ \E S \in ClosedSets :
         \E U \in UnreadableChoices(S) :
            \E up \in BOOLEAN :
               f = [exists |-> TRUE, present |-> S, unreadable |-> U,
                    order |-> [d \in DirsIn(S) |->
                                  ListingByRank(ChildrenIn(S, d), up)]]

\* list.sort() of strings, repeated ones kept.
RECURSIVE InsertString(_, _)
InsertString(sorted, x) ==
    IF sorted = <<>> THEN <<x>>
    ELSE IF StrLess(x, Head(sorted)) THEN <<x>> \o sorted
    ELSE <<Head(sorted)>> \o InsertString(Tail(sorted), x)

RECURSIVE SortStringSeq(_)
SortStringSeq(seq) ==
    IF seq = <<>> THEN <<>>
    ELSE InsertString(SortStringSeq(SubSeq(seq, 1, Len(seq) - 1)), seq[Len(seq)])

\* entries.sort() of extract_server.py:41, on the entries' names.
RECURSIVE SortByName(_)
SortByName(C) ==
    IF C = {} THEN <<>>
    ELSE LET m == CHOOSE x \in C : \A y \in C : StrLeq(Name(x), Name(y))
         IN  <<m>> \o SortByName(C \ {m})

\* glob.glob(os.path.join(d, '**', '*' + ext), recursive=True): the matches
\* in d, then those of each subdirectory; neither "*" nor "**" matches a
\* name with a leading dot, and a directory that cannot be listed yields
\* nothing.
RECURSIVE GlobRecursive(_, _, _)
RECURSIVE GlobSubdirs(_, _, _)
GlobRecursive(f, d, ext) ==
    IF d \in f.unreadable THEN <<>>
    ELSE LET here == SelectSeq(f.order[d],
                        LAMBDA n : GlobMatch(<<"*">> \o ext, Name(n)))
             subs == SelectSeq(f.order[d],
                        LAMBDA n : IsDir(n) /\ Head(Name(n)) # ".")
         IN  [i \in DOMAIN here |-> FullPathOf(here[i])]
             \o GlobSubdirs(f, subs, ext)

GlobSubdirs(f, subs, ext) ==
    IF subs = <<>> THEN <<>>
    ELSE GlobRecursive(f, Head(subs), ext) \o GlobSubdirs(f, Tail(subs), ext)

\* extract_server.py:53-61
count_lines_of_code(f, file_path) ==
    LET n == NodeOfPath(file_path)
    IN  IF n \in f.unreadable \/ IsDir(n) THEN 0
        ELSE Len(ReadLines(NodeTable[n].content))

RECURSIVE SumLoc(_, _)
SumLoc(f, files) ==
    IF files = <<>> THEN 0
    ELSE count_lines_of_code(f, Head(files)) + SumLoc(f, Tail(files))

\* extract_server.py:7-51. The result is the lines of the returned string;
\* raised tells that os.listdir raised, which nothing here catches.
RECURSIVE server_generate_directory_tree(_, _, _, _, _)
RECURSIVE ServerTreeLoop(_, _, _, _, _, _)
server_generate_directory_tree(f, target, prefix, is_last, patterns) ==
    IF MatchesExclude(FullPathOf(target), patterns)
    THEN [raised |-> FALSE, text |-> <<>>]
    ELSE LET line == [prefix |-> prefix,
                      marker |-> IF is_last THEN Corner ELSE Branch,
                      name |-> IF target = 0 THEN target_subfolder ELSE Name(target),
                      node |-> target]
         IN  IF ~IsDir(target)
             THEN [raised |-> FALSE, text |-> <<line>>]
             ELSE IF target \in f.unreadable
             THEN [raised |-> TRUE, text |-> <<line>>]
             ELSE LET entries == SortByName(
                          {e \in RangeOf(f.order[target]) :
                              ~MatchesExclude(FullPathOf(e), patterns)})
                      rest == ServerTreeLoop(f, entries, 1,
                                 Append(prefix, IF is_last THEN Blank ELSE Bar),
                                 patterns, FALSE)
                  IN  [raised |-> rest.raised, text |-> <<line>> \o rest.text]

\* The loop of extract_server.py:44-49 from position i on.
ServerTreeLoop(f, entries, i, next_prefix, patterns, raised) ==
    IF raised \/ i > Len(entries) THEN [raised |-> raised, text |-> <<>>]
    ELSE LET sub == server_generate_directory_tree(f, entries[i], next_prefix,
                                                   i = Len(entries), patterns)
             rest == ServerTreeLoop(f, entries, i + 1, next_prefix, patterns,
                                    sub.raised)
         IN  [raised |-> rest.raised, text |-> sub.text \o rest.text]

ServerInit ==
    /\ tool = "server"
    /\ pc = "start"
    /\ DbIdle
    /\ AuthIdle
    /\ IsServerFsChoice(fs)
    /\ tree = <<>> /\ walk_stack = <<>> /\ walk_listed = {}
    /\ files_pending = <<>> /\ code_content = <<>>
    /\ total_files = 0 /\ total_lines = 0 /\ code_info = <<>>
    /\ dir_idx = 1 /\ written = {}
    /\ main_total_files = 0 /\ main_total_lines = 0
    /\ file_extensions \in ExtensionLists
    /\ ext_idx = 1 /\ glob_files = <<>> /\ total_loc = 0 /\ dir_tree = <<>>
    /\ write_idx = 1 /\ output_file = <<>>

\* extract_server.py:74-92: without the target directory nothing is written.
ServerStart ==
    /\ tool = "server" /\ pc = "start"
    /\ pc' = IF fs.exists THEN "glob" ELSE "done"
    /\ UNCHANGED <<dbVars, authVars, fs, codeVars, mainVars, serverVars, tool>>

\* extract_server.py:93-94, one extension per step.
ServerGlob ==
    /\ tool = "server" /\ pc = "glob"
    /\ ext_idx <= Len(file_extensions)
    /\ glob_files' = glob_files \o GlobRecursive(fs, 0, file_extensions[ext_idx])
    /\ ext_idx' = ext_idx + 1
    /\ UNCHANGED <<dbVars, authVars, fs, codeVars, mainVars, tool, pc, file_extensions,
                   total_loc, dir_tree, write_idx, output_file>>

TreeTokens(text) == [i \in DOMAIN text |-> <<"TREE", text[i]>>]

\* extract_server.py:96-116: sort, count, build the tree, open the report
\* and write its head; if the tree raises, nothing is written.
ServerHead ==
    /\ tool = "server" /\ pc = "glob"
    /\ ext_idx > Len(file_extensions)
    /\ LET sorted == SortStringSeq(glob_files)
           loc == SumLoc(fs, sorted)
           t == server_generate_directory_tree(fs, 0, <<>>, TRUE, exclude_patterns)
       IN  /\ glob_files' = sorted
           /\ total_loc' = loc
           /\ IF t.raised
              THEN /\ pc' = "raised"
                   /\ UNCHANGED <<dir_tree, output_file>>
              ELSE /\ pc' = "write"
                   /\ dir_tree' = t.text
                   /\ output_file' = << <<"SUMMARY", Len(sorted), loc>> >>
                                     \o TreeTokens(t.text)
    /\ UNCHANGED <<dbVars, authVars, fs, codeVars, mainVars, tool, file_extensions,
                   ext_idx, write_idx>>

\* The body of the loop of extract_server.py:119-131 for one path.
WriteFile(f, file_path, out) ==
    LET rel_path == RelPath(file_path, base_dir)
        loc == count_lines_of_code(f, file_path)
        n == NodeOfPath(file_path)
    IN  out \o << <<"FILE", rel_path, loc>>,
                  IF n \in f.unreadable \/ IsDir(n)
                  THEN <<"PLACEHOLDER", rel_path>>
                  ELSE <<"CONTENT", rel_path>> >>

ServerWriteFile ==
    /\ tool = "server" /\ pc = "write"
    /\ write_idx <= Len(glob_files)
    /\ output_file' = WriteFile(fs, glob_files[write_idx], output_file)
    /\ write_idx' = write_idx + 1
    /\ UNCHANGED <<dbVars, authVars, fs, codeVars, mainVars, tool, pc, file_extensions,
                   ext_idx, glob_files, total_loc, dir_tree>>

\* extract_server.py:133-134
ServerFinish ==
    /\ tool = "server" /\ pc = "write"
    /\ write_idx > Len(glob_files)
    /\ pc' = "done"
    /\ UNCHANGED <<dbVars, authVars, fs, codeVars, mainVars, serverVars, tool>>

ServerNext ==
    ServerStart \/ ServerGlob \/ ServerHead \/ ServerWriteFile \/ ServerFinish

SpecServer == ServerInit /\ [][ServerNext]_vars

----------------------------------------------------------------------------
(* Claims about extract_code.py *)

\* A node lies below a directory with an excluded name.
BelowExcluded(n) == \E d \in Ancestors(n) : Name(d) \in exclude_dirs

\* Every directory on the way to the node can be listed.
Reachable(f, n) == (Ancestors(n) \cup {0}) \cap f.unreadable = {}

HasCodeExtension(n) == Lower(SplitExt(Name(n))) \in code_extensions

\* The files that pass the filters of extract_code.py:69 and 75.
PassingFiles(f) ==
    {n \in f.present : /\ ~IsDir(n)
                       /\ HasCodeExtension(n)
                       /\ ~BelowExcluded(n)
                       /\ Reachable(f, n)}

NodesOf(seq) == {seq[i].node : i \in DOMAIN seq}

RECURSIVE SumLines(_)
SumLines(cc) == IF cc = <<>> THEN 0 ELSE Head(cc).lines + SumLines(Tail(cc))

\* The "Lines:" values of a report's content, added up.
RECURSIVE SumLinesTokens(_)
SumLinesTokens(out) ==
    IF out = <<>> THEN 0
    ELSE (IF Head(out)[1] = "Lines" THEN Head(out)[2] ELSE 0)
         + SumLinesTokens(Tail(out))

Returned == tool = "code" /\ pc \in {"collect", "done"}

\* C3: no entry below a directory with an excluded name (and no such
\* directory itself) has a tree line, a content section or a share of
\* total_files/total_lines, whatever its extension, and os.walk never
\* lists an excluded directory or one below it.
C3_ExclusionComplete ==
    tool = "code" =>
        /\ \A n \in fs.present :
              (BelowExcluded(n) \/ (IsDir(n) /\ Name(n) \in exclude_dirs)) =>
                  /\ n \notin NodesOf(tree)
                  /\ n \notin NodesOf(code_content)
                  /\ n \notin walk_listed
                  /\ code_info # <<>> =>
                        /\ n \notin NodesOf(code_info[1].tree)
                        /\ RelPathOf(n) \notin PathsOfKind(code_info[1].content, "File")
        /\ total_files <= Cardinality(PassingFiles(fs))
        /\ code_info # <<>> =>
              /\ code_info[1].total_files <= Cardinality(PassingFiles(fs))
              /\ code_info[1].total_lines =
                    SumLines(SelectSeq(code_content,
                                       LAMBDA sec : ~BelowExcluded(sec.node)))

C3_Witness ==
    /\ Returned /\ code_info # <<>>
    /\ {7, 9} \subseteq fs.present
    /\ fs.unreadable = {}
    /\ 1 \in walk_listed

\* C5 (as claimed): the content sections of a returned report are in
\* ascending order of full file path.
C5_SectionsAscendingByPath ==
    (Returned /\ code_info # <<>>) =>
        LET paths == SeqOfKind(code_info[1].content, "File")
        IN  IsAscending([i \in DOMAIN paths |-> PathJoin(root_dir, paths[i])])

\* C6 (as claimed): every file that passes the filters has a content section
\* and is counted, a file that cannot be read with a line count of 0.
C6_UnreadableFileCounted ==
    Returned =>
        /\ \A n \in PassingFiles(fs) :
              \E i \in DOMAIN code_content :
                 /\ code_content[i].node = n
                 /\ n \in fs.unreadable => code_content[i].lines = 0
        /\ total_files = Cardinality(PassingFiles(fs))

\* C7: after every step of the walk total_files is the number of sections
\* appended to code_content and total_lines the sum of their "Lines:"
\* values, and the same holds of the returned report.
C7_CountConsistency ==
    tool = "code" =>
        /\ total_files = Len(code_content)
        /\ total_lines = SumLines(code_content)
        /\ code_info # <<>> =>
              /\ code_info[1].total_files =
                    Len(SeqOfKind(code_info[1].content, "File"))
              /\ code_info[1].total_lines = SumLinesTokens(code_info[1].content)

C7_Witness ==
    /\ Returned /\ code_info # <<>>
    /\ code_info[1].total_files >= 2
    /\ code_info[1].total_lines >= 3
    /\ \E n \in fs.unreadable : n \in fs.present /\ ~IsDir(n)
          /\ HasCodeExtension(n) /\ ~BelowExcluded(n)

\* C9: extract_code_for_directory returns
\* None when the directory does not exist and when no file passes the
\* filters; a report has total_files >= 1 and a non-empty content; main
\* writes the report and adds to its totals exactly when the result is not
\* None.
C9_AbsentSignal ==
    tool = "code" =>
        /\ Returned =>
              /\ ~fs.exists => code_info = <<>>
              /\ PassingFiles(fs) = {} => code_info = <<>>
              /\ code_info # <<>> =>
                    /\ code_info[1].total_files >= 1
                    /\ code_info[1].content # <<>>
        /\ pc = "done" =>
              /\ directories[1] \in written <=> code_info # <<>>
              /\ main_total_files =
                    (IF code_info = <<>> THEN 0 ELSE code_info[1].total_files)
              /\ main_total_lines =
                    (IF code_info = <<>> THEN 0 ELSE code_info[1].total_lines)

C9_Witness ==
    /\ tool = "code" /\ pc = "done"
    /\ fs.exists /\ fs.present # {} /\ PassingFiles(fs) = {}
    /\ code_info = <<>> /\ written = {}

\* C10 (as claimed): every file line of the returned tree is the line of a
\* file that has a content section.
C10_TreeFilesHaveSections ==
    (Returned /\ code_info # <<>>) =>
        \A i \in DOMAIN code_info[1].tree :
            LET n == code_info[1].tree[i].node
            IN  ~IsDir(n) =>
                   RelPathOf(n) \in PathsOfKind(code_info[1].content, "File")

\* C10 (amended): the returned tree has a line for exactly the entries that
\* can be reached through listable directories without meeting an excluded
\* name, whatever their extension; so it lists no excluded directory and
\* nothing below one, and every file with a content section has a file line.
C10_TreeCoversSections ==
    (Returned /\ code_info # <<>>) =>
        /\ NodesOf(code_info[1].tree) =
              {n \in fs.present : /\ Reachable(fs, n)
                                  /\ Name(n) \notin exclude_dirs
                                  /\ ~BelowExcluded(n)}
        /\ \A p \in PathsOfKind(code_info[1].content, "File") :
              \E i \in DOMAIN code_info[1].tree :
                 /\ ~IsDir(code_info[1].tree[i].node)
                 /\ RelPathOf(code_info[1].tree[i].node) = p

C10_Witness ==
    /\ Returned /\ code_info # <<>>
    /\ 4 \in NodesOf(code_info[1].tree)
    /\ 2 \in fs.present
    /\ Len(SeqOfKind(code_info[1].content, "File")) >= 2


\* The line of a tree written for an entry, and the entry's depth below the
\* target directory.
LineOf(t, n) == CHOOSE i \in DOMAIN t : t[i].node = n

DepthOf(n) == Cardinality(Ancestors(n))

\* Line i is the last line of t written for a child of its directory.
LastRendered(t, i) ==
    \A j \in DOMAIN t :
        NodeTable[t[j].node].parent = NodeTable[t[i].node].parent => j <= i

\* The ancestor of an entry at depth k - 1, whose flag is segment k of the
\* entry's prefix.
AncestorAt(n, k) == CHOOSE a \in Ancestors(n) : DepthOf(a) = k - 1

\* The markers and continuation segments of a tree are those of the
\* last-sibling convention.
LastSiblingRendering(t) ==
    \A i \in DOMAIN t :
        /\ t[i].marker = (IF LastRendered(t, i) THEN Corner ELSE Branch)
        /\ \A k \in DOMAIN t[i].prefix :
              k <= DepthOf(t[i].node) =>
                 t[i].prefix[k] =
                    (IF LastRendered(t, LineOf(t, AncestorAt(t[i].node, k)))
                     THEN Blank ELSE Bar)

\* C12 (as claimed): at every level of the tree exactly the last rendered
\* entry has the corner marker and every other rendered entry the branch
\* marker, and the lines below an entry carry, at that entry's depth, the
\* blank segment if the entry is the last rendered one and the bar if not.
C12_LastSiblingRendering ==
    tool = "code" =>
        /\ LastSiblingRendering(tree)
        /\ code_info # <<>> => LastSiblingRendering(code_info[1].tree)


\* Entry m lies below directory n.
Below(m, n) == n \in Ancestors(m)

\* The lines of the entries below the entry of line i are the lines right
\* after line i.
SubtreeFollows(t, i) ==
    \A j \in DOMAIN t :
        Below(t[j].node, t[i].node) =>
            /\ j > i
            /\ \A m \in (i + 1)..j : Below(t[m].node, t[i].node)

\* Two children of one directory are written directories first and, within
\* directories and within files, by ascending lower-cased name.
LevelOrdered(t, i, j) ==
    LET a == t[i].node
        b == t[j].node
    IN  (i < j /\ NodeTable[a].parent = NodeTable[b].parent) =>
            /\ IsDir(b) => IsDir(a)
            /\ IsDir(a) = IsDir(b) => StrLeq(Lower(Name(a)), Lower(Name(b)))

TreeOrdered(t) ==
    /\ \A i, j \in DOMAIN t : i # j => t[i].node # t[j].node
    /\ \A i \in DOMAIN t :
          /\ SubtreeFollows(t, i)
          /\ Len(t[i].prefix) = DepthOf(t[i].node)
          /\ \A k \in DOMAIN t[i].prefix : t[i].prefix[k] \in {Blank, Bar}
          /\ t[i].marker \in {Corner, Branch}
          /\ t[i].name = Name(t[i].node)
          /\ \A a \in Ancestors(t[i].node) :
                \E j \in DOMAIN t : j < i /\ t[j].node = a
    /\ \A i, j \in DOMAIN t : LevelOrdered(t, i, j)

\* C13: the tree is a depth-first pre-order listing: every entry has one
\* line, after the lines of the directories above it; the lines of the
\* entries below a directory come right after the directory's line, before
\* its next sibling; the children of one directory are in the order
\* directories first, then files, each group by ascending lower-cased name;
\* a line at depth d has a prefix of d segments, each one of the two
\* four-character continuation segments.
C13_TreeOrdering ==
    tool = "code" =>
        /\ TreeOrdered(tree)
        /\ code_info # <<>> => TreeOrdered(code_info[1].tree)

\* The listing gave the files of the target directory before its directory
\* and Z.png before x.ts; the tree has them sorted, with a's files below a.
C13_Witness ==
    /\ Returned /\ code_info # <<>>
    /\ {1, 3, 4, 5, 10} \subseteq NodesOf(code_info[1].tree)
    /\ \E p, q, r \in DOMAIN fs.order[0] :
          /\ p < q /\ q < r
          /\ fs.order[0][p] = 4 /\ fs.order[0][q] = 3 /\ fs.order[0][r] = 1
    /\ LineOf(code_info[1].tree, 1) < LineOf(code_info[1].tree, 5)
    /\ LineOf(code_info[1].tree, 5) < LineOf(code_info[1].tree, 3)
    /\ LineOf(code_info[1].tree, 3) < LineOf(code_info[1].tree, 4)
    /\ Len(code_info[1].tree[LineOf(code_info[1].tree, 5)].prefix) = 1


\* A directory inside the target that the tree builder reaches and whose
\* listing raises.
FailingDirs(f) ==
    {d \in f.unreadable \cap f.present :
        /\ IsDir(d)
        /\ Reachable(f, d)
        /\ Name(d) \notin exclude_dirs
        /\ ~BelowExcluded(d)}

\* What the tree has to list next to a directory d whose listing raises:
\* d's own line, nothing below d, and every other child of d's directory
\* with what can be reached below it.
RendersAround(f, t, d) ==
    /\ d \in NodesOf(t)
    /\ \A m \in f.present : Below(m, d) => m \notin NodesOf(t)
    /\ \A s \in ChildrenIn(f.present, NodeTable[d].parent) :
          Name(s) \notin exclude_dirs =>
             /\ s \in NodesOf(t)
             /\ \A m \in f.present :
                   (Below(m, s) /\ Reachable(f, m) /\ ~BelowExcluded(m)
                      /\ Name(m) \notin exclude_dirs) => m \in NodesOf(t)

----------------------------------------------------------------------------
(* Claims about extract_server.py *)

\* A node lies below a directory whose path matches an exclusion pattern.
ServerBelowExcluded(n) ==
    \E d \in Ancestors(n) : MatchesExclude(FullPathOf(d), exclude_patterns)

\* C4 (as claimed): a file below a directory that matches an exclusion
\* pattern is neither in the DIRECTORY STRUCTURE block nor in the FILE
\* CONTENTS sections nor in the "Total files" count.
C4_ServerExclusionComplete ==
    (tool = "server" /\ pc = "done" /\ fs.exists) =>
        /\ \A n \in fs.present :
              (~IsDir(n) /\ ServerBelowExcluded(n)) =>
                  /\ n \notin NodesOf(dir_tree)
                  /\ RelPath(FullPathOf(n), base_dir)
                        \notin PathsOfKind(output_file, "FILE")
        /\ \A sm \in SummaryOf(output_file) :
              sm[2] <= Cardinality({n \in fs.present :
                                       ~IsDir(n) /\ ~ServerBelowExcluded(n)})
                       * Len(file_extensions)

\* A directory inside the target, not excluded, that the tree builder
\* reaches and whose listing raises.
ServerFailingDirs(f) ==
    {d \in f.unreadable \cap f.present :
        /\ IsDir(d)
        /\ Reachable(f, d)
        /\ ~MatchesExclude(FullPathOf(d), exclude_patterns)}

\* C15 (as claimed): when the listing of a non-excluded directory inside
\* the target raises, no exception leaves generate_directory_tree or
\* extract_code; the tree has the directory's line, no line below it and
\* the lines of the other entries of its directory, and the report is
\* written.
C15_ServerUnreadableDirFailsSoft ==
    (tool = "server" /\ fs.exists /\ ServerFailingDirs(fs) # {}) =>
        /\ pc # "raised"
        /\ pc \in {"write", "done"} =>
              /\ SummaryOf(output_file) # {}
              /\ \A d \in ServerFailingDirs(fs) :
                    /\ d \in NodesOf(dir_tree)
                    /\ \A m \in fs.present : Below(m, d) => m \notin NodesOf(dir_tree)
                    /\ \A s \in ChildrenIn(fs.present, NodeTable[d].parent) :
                          ~MatchesExclude(FullPathOf(s), exclude_patterns) =>
                              s \in NodesOf(dir_tree)

\* The distinct elements of a sequence.
DistinctOf(seq) == {seq[i] : i \in DOMAIN seq}

RECURSIVE SumLocOver(_, _)
SumLocOver(f, paths) ==
    IF paths = {} THEN 0
    ELSE LET p == CHOOSE x \in paths : TRUE
         IN  count_lines_of_code(f, p) + SumLocOver(f, paths \ {p})

\* C16 (as claimed, extract_server.extract_code): whatever the extension
\* list, a file has at most one FILE section in the report, and the report's
\* total file count and total line count count each collected file once.
C16_NoDuplicateSections ==
    (tool = "server" /\ pc = "done" /\ fs.exists) =>
        /\ \A p \in PathsOfKind(output_file, "FILE") :
              Cardinality({i \in DOMAIN output_file :
                  output_file[i][1] = "FILE" /\ output_file[i][2] = p}) = 1
        /\ \A sm \in SummaryOf(output_file) :
              /\ sm[2] = Cardinality(DistinctOf(glob_files))
              /\ sm[3] = SumLocOver(fs, DistinctOf(glob_files))

----------------------------------------------------------------------------
(* extract_db_code.py: the database layer *)

\* Longest file content the model draws.
MaxContent == 2

\* DATABASE_DIR of extract_db_code.py:25, as an absolute path.
DATABASE_DIR == PathJoin(root_dir, <<"d", "b">>)

\* EXCLUDE_PATTERNS of extract_db_code.py:28.
EXCLUDE_PATTERNS == { <<"n", "o", "d", "e", "_", "m", "o", "d", "u", "l", "e", "s">>, <<"d", "i", "s", "t">>, <<".", "g", "i", "t">> }

\* The relative paths DATABASE_DIR can hold: m.ts, s/t.d.ts, dist/m.ts.
DbPaths ==
    { <<"m", ".", "t", "s">>,
      <<"s", "/", "t", ".", "d", ".", "t", "s">>,
      <<"d", "i", "s", "t", "/", "m", ".", "t", "s">> }

\* The contents a file can have: the strings over "a" and newline of at
\* most MaxContent characters.
DbContents == UNION {[1..n -> {"a", "\n"}] : n \in 0..MaxContent}

\* What a path of DATABASE_DIR can be: no file, a file whose open raises, a
\* file with a content.
DbFileStates ==
    {[state |-> "absent", content |-> <<>>],
     [state |-> "unreadable", content |-> <<>>]}
    \cup {[state |-> "readable", content |-> c] : c \in DbContents}

\* The extension lists a run is given: one extension, a repeated one, one
\* without and with its dot, one that is a suffix of another.
DbExtensionLists ==
    { << <<".", "t", "s">> >>,
      << <<".", "t", "s">>, <<".", "t", "s">> >>,
      << <<"t", "s">>, <<".", "t", "s">> >>,
      << <<".", "t", "s">>, <<".", "d", ".", "t", "s">> >> }

\* extract_db_code.py:40-45
is_excluded(file_path) == \E pattern \in EXCLUDE_PATTERNS : Contains(file_path, pattern)

\* extract_db_code.py:58-59
NormalizeExt(ext) == IF StartsWith(ext, <<".">>) THEN ext ELSE <<".">> \o ext

\* The components of a relative path.
RECURSIVE Components(_, _)
Components(path, cur) ==
    IF path = <<>> THEN <<cur>>
    ELSE IF Head(path) = "/" THEN <<cur>> \o Components(Tail(path), <<>>)
    ELSE Components(Tail(path), Append(cur, Head(path)))

\* glob.glob(os.path.join(directory, "**", "*" + ext), recursive=True), as
\* the set of matches: the last component matches "*" + ext and no component
\* has a leading dot.
DbGlobSet(d, directory, ext) ==
    {PathJoin(directory, p) : p \in {q \in DOMAIN d.files :
        LET comps == Components(q, <<>>)
        IN  /\ d.files[q].state # "absent"
            /\ \A i \in DOMAIN comps : comps[i] # <<>> /\ Head(comps[i]) # "."
            /\ GlobMatch(<<"*">> \o ext, comps[Len(comps)])}}

\* content.count('\n')
CountNewlines(content) == Cardinality({i \in DOMAIN content : content[i] = "\n"})

\* The loop of extract_db_code.py:61-81 over one glob result.
RECURSIVE ReadMatches(_, _, _, _)
ReadMatches(d, directory, acc, matches) ==
    IF matches = <<>> THEN acc
    ELSE LET file_path == Head(matches)
             relative_path == RelPath(file_path, directory)
             file == d.files[relative_path]
         IN  ReadMatches(d, directory,
                 IF is_excluded(file_path) THEN acc
                 ELSE IF file.state = "readable"
                 THEN \* lines 67-74
                      Append(acc, [path |-> relative_path,
                                   lines |-> CountNewlines(file.content) + 1,
                                   content |-> file.content])
                 ELSE \* lines 75-81
                      Append(acc, [path |-> relative_path,
                                   lines |-> 0,
                                   content |-> <<"E", "R", "R", "O", "R">>]),
                 Tail(matches))

\* sorted(files_data, key=lambda x: x["path"]), which is stable.
RECURSIVE InsertRecord(_, _)
InsertRecord(sorted, x) ==
    IF sorted = <<>> THEN <<x>>
    ELSE IF StrLess(x.path, Head(sorted).path) THEN <<x>> \o sorted
    ELSE <<Head(sorted)>> \o InsertRecord(Tail(sorted), x)

RECURSIVE SortRecords(_)
SortRecords(records) ==
    IF records = <<>> THEN <<>>
    ELSE InsertRecord(SortRecords(SubSeq(records, 1, Len(records) - 1)),
                      records[Len(records)])

\* sum(file['lines'] for file in files_data), extract_db_code.py:113
RECURSIVE SumRecordLines(_)
SumRecordLines(records) ==
    IF records = <<>> THEN 0
    ELSE Head(records).lines + SumRecordLines(Tail(records))

\* extract_db_code.py:116-118
ListingTokens(records) ==
    [i \in DOMAIN records |-> <<"LISTING", records[i].path, records[i].lines>>]

\* extract_db_code.py:122-127
RECURSIVE SectionTokens(_)
SectionTokens(records) ==
    IF records = <<>> THEN <<>>
    ELSE << <<"FILE", Head(records).path>>, <<"TEXT", Head(records).content>> >>
         \o SectionTokens(Tail(records))

\* extract_db_code.py:105-127: what main writes to OUTPUT_FILE.
WriteReport(records) ==
    << <<"TOTALS", Len(records), SumRecordLines(records)>> >>
    \o ListingTokens(records) \o SectionTokens(records)

DbInit ==
    /\ tool = "db"
    /\ pc = "start"
    /\ AuthIdle
    /\ CodeIdle
    /\ ServerIdle
    /\ \/ db_disk = [exists |-> FALSE,
                     files |-> [p \in DbPaths |-> [state |-> "absent", content |-> <<>>]]]
       \/ \E fl \in [DbPaths -> DbFileStates] :
             db_disk = [exists |-> TRUE, files |-> fl]
    /\ db_extensions \in DbExtensionLists
    /\ db_ext_idx = 1
    /\ files_data = <<>>
    /\ db_report = <<>>

\* extract_db_code.py:97 and 50-54: main calls extract_files, which returns
\* the empty list when the directory is missing.
DbStart ==
    /\ tool = "db" /\ pc = "start"
    /\ pc' = IF db_disk.exists THEN "glob" ELSE "main"
    /\ UNCHANGED <<authVars, fs, codeVars, mainVars, serverVars, dbVars, tool>>

\* extract_db_code.py:57-81, one extension per step.
DbGlob ==
    /\ tool = "db" /\ pc = "glob"
    /\ db_ext_idx <= Len(db_extensions)
    /\ LET ext == NormalizeExt(db_extensions[db_ext_idx])
       IN  \E matches \in Orderings(DbGlobSet(db_disk, DATABASE_DIR, ext)) :
              files_data' = ReadMatches(db_disk, DATABASE_DIR, files_data, matches)
    /\ db_ext_idx' = db_ext_idx + 1
    /\ UNCHANGED <<authVars, fs, codeVars, mainVars, serverVars, tool, pc,
                   db_disk, db_extensions, db_report>>

\* extract_db_code.py:84
DbReturn ==
    /\ tool = "db" /\ pc = "glob"
    /\ db_ext_idx > Len(db_extensions)
    /\ files_data' = SortRecords(files_data)
    /\ pc' = "main"
    /\ UNCHANGED <<authVars, fs, codeVars, mainVars, serverVars, tool,
                   db_disk, db_extensions, db_ext_idx, db_report>>

\* extract_db_code.py:100-102: nothing was found, nothing is written.
DbNothing ==
    /\ tool = "db" /\ pc = "main"
    /\ files_data = <<>>
    /\ pc' = "done"
    /\ UNCHANGED <<authVars, fs, codeVars, mainVars, serverVars, dbVars, tool>>

\* extract_db_code.py:105-129
DbWrite ==
    /\ tool = "db" /\ pc = "main"
    /\ files_data # <<>>
    /\ db_report' = WriteReport(files_data)
    /\ pc' = "done"
    /\ UNCHANGED <<authVars, fs, codeVars, mainVars, serverVars, tool,
                   db_disk, db_extensions, db_ext_idx, files_data>>

DbNext == DbStart \/ DbGlob \/ DbReturn \/ DbNothing \/ DbWrite

SpecDb == DbInit /\ [][DbNext]_vars

(* Claims about extract_db_code.py *)

\* The segments of a content that end in a newline.
TerminatedSegments(content) ==
    Len(SelectSeq(ReadLines(content), LAMBDA l : l[Len(l)] = "\n"))

\* C11 (as claimed): the lines value of a record is the number of
\* newline-terminated segments of the file's content (0 for an empty file),
\* and 0 when the read fails; the report's Total Lines is the sum of the
\* lines values of the records.
C11_LinesAreTerminatedSegments ==
    (tool = "db" /\ pc \in {"main", "done"}) =>
        /\ \A i \in DOMAIN files_data :
              LET file == db_disk.files[files_data[i].path]
              IN  /\ file.state = "readable" =>
                        files_data[i].lines = TerminatedSegments(file.content)
                  /\ file.state = "unreadable" => files_data[i].lines = 0
        /\ \A i \in DOMAIN db_report :
              db_report[i][1] = "TOTALS" =>
                  db_report[i][3] = SumRecordLines(files_data)

RECURSIVE SumLinesOver(_, _)
SumLinesOver(records, paths) ==
    IF paths = {} THEN 0
    ELSE LET p == CHOOSE x \in paths : TRUE
             r == CHOOSE x \in DistinctOf(records) : x.path = p
         IN  r.lines + SumLinesOver(records, paths \ {p})

\* C16 (as claimed, extract_db_code.extract_files): whatever the extension
\* list, a file has at most one record in files_data, and Total Files and
\* Total Lines count each file once.
C16_NoDuplicateRecords ==
    (tool = "db" /\ pc \in {"main", "done"}) =>
        LET paths == {files_data[i].path : i \in DOMAIN files_data}
        IN  /\ \A p \in paths :
                  Cardinality({i \in DOMAIN files_data : files_data[i].path = p}) = 1
            /\ \A i \in DOMAIN db_report :
                  db_report[i][1] = "TOTALS" =>
                      /\ db_report[i][2] = Cardinality(paths)
                      /\ db_report[i][3] = SumLinesOver(files_data, paths)

=============================================================================
